---- MODULE Spec2Model ----
(***************************************************************************)
(* Model of the local verification harness of the Yao garbled-circuit      *)
(* adder (src/src/main.py, LocalTest) and of the plaintext reference adder *)
(* (src/src/n_bit_binary_adder.py).                                        *)
(*                                                                         *)
(* Python strings of binary digits are sequences of the characters "0"     *)
(* and "1"; Python lists of int bits are sequences of 0 and 1.  Python     *)
(* lists and strings are 0-based, the sequences here are 1-based.          *)
(***************************************************************************)
EXTENDS Integers, Sequences, FiniteSets, TLC

VARIABLES
    a_wires,        \* circuit["alice"], ordered wire ids
    b_wires,        \* circuit["bob"], ordered wire ids
    outputs,        \* circuit["out"], ordered wire ids
    keys,           \* entry["keys"]: wire id -> pair of opaque key handles
    pbits,          \* entry["pbits"]: wire id -> permutation bit
    print_mode,     \* LocalTest._print_mode
    pc,             \* "ready", "loop", "done" or "crashed"
    error,          \* the exception that ended the run, "none" otherwise
    dispatched,     \* handler that start() dispatched to, "none" before
    total_wires,    \* local of _print_evaluation
    possible_bit_combinations,  \* local of _print_evaluation
    idx,            \* number of loop iterations entered so far
    bits,           \* loop variable: the current vector
    bits_a,         \* Alice's bits of the current vector
    bits_b,         \* Bob's bits of the current vector
    a_inputs,       \* map Alice wire -> <<key, encr_bit>>, reused over trials
    b_inputs,       \* map Bob wire -> <<key, encr_bit>>, reused over trials
    evalCalls,      \* number of calls of yao.evaluate
    evalResult,     \* what yao.evaluate returned in the current trial
    str_result,     \* the evaluator's output bits as printed
    whole_result,   \* the expected result as printed
    equal,          \* the verdict printed ("True"/"False"), "none" before any
    reported        \* the vectors of the report lines printed, in order

vars == <<a_wires, b_wires, outputs, keys, pbits, print_mode, pc, error,
          dispatched, total_wires, possible_bit_combinations, idx, bits,
          bits_a, bits_b, a_inputs, b_inputs, evalCalls, evalResult,
          str_result, whole_result, equal, reported>>

-----------------------------------------------------------------------------
(* Bounds of the model *)

MaxAlice == 3
MaxBob == 2
MaxOut == 3

-----------------------------------------------------------------------------
(* Values *)

Bit == {0, 1}

\* the keys of LocalTest.modes
Modes == {"circuit", "table"}

\* values the print_mode argument can take; "verbose" is not a key of modes
PrintModeInputs == Modes \cup {"verbose"}

NoMap == [w \in {} |-> 0]

Range(s) == {s[i] : i \in DOMAIN s}

RECURSIVE Pow2(_)
Pow2(n) == IF n = 0 THEN 1 ELSE 2 * Pow2(n - 1)

\* a ^ b on bits
Xor(a, b) == (a + b) % 2

\* str(b) for an int bit
str(b) == IF b = 0 THEN "0" ELSE "1"

\* int(c) and int(c, 2) for a one-digit string
int(c) == IF c = "0" THEN 0 ELSE 1

\* format(n, 'b')
RECURSIVE FormatB(_)
FormatB(n) == IF n < 2 THEN <<str(n)>> ELSE FormatB(n \div 2) \o <<str(n % 2)>>

\* s.zfill(width): pads on the left, never truncates
RECURSIVE ZFill(_, _)
ZFill(s, width) == IF Len(s) >= width THEN s ELSE ZFill(<<"0">> \o s, width)

\* s[:stop] for 0 <= stop
SliceTo(s, stop) == SubSeq(s, 1, IF stop < Len(s) THEN stop ELSE Len(s))

\* s[start:] for 0 <= start
SliceFrom(s, start) == SubSeq(s, start + 1, Len(s))

\* [int(b) for b in s]
IntList(s) == [i \in DOMAIN s |-> int(s[i])]

\* [format(n, 'b').zfill(total_wires) for n in range(2 ** total_wires)]
PossibleBitCombinations(total) ==
    [k \in 1..Pow2(total) |-> ZFill(FormatB(k - 1), total)]

-----------------------------------------------------------------------------
(* binary_adder.full_adder, as its callers use it: the arguments are the    *)
(* carry and the two bits, the result is the pair (carry out, sum).         *)

full_adder(carry, a, b) ==
    <<IF a + b + carry >= 2 THEN 1 ELSE 0, (carry + a + b) % 2>>

-----------------------------------------------------------------------------
(* The oracle inlined in _print_evaluation.  A result is a record with the  *)
(* exception raised ("none" if none) and the string computed.               *)

RECURSIVE InlineLoop(_, _, _, _, _, _)
InlineLoop(i, bits_per_party, temp_carry, result, alice_real_input, bob) ==
    IF i > bits_per_party
    THEN [err |-> "none", value |-> result \o <<str(temp_carry)>>]
    ELSE IF i > Len(alice_real_input)
    THEN [err |-> "IndexError", value |-> <<>>]
    ELSE LET fa == full_adder(temp_carry, alice_real_input[i], bob[i])
         IN  InlineLoop(i + 1, bits_per_party, fa[1],
                        result \o <<str(fa[2])>>, alice_real_input, bob)

\* InlineOracle with the carry-in dropped: temp_carry = 0
InlineOracle_NoCarryIn(str_bits_a, bitsA, bitsB) ==
    IF bitsA = <<>>
    THEN [err |-> "ValueError", value |-> <<>>]
    ELSE InlineLoop(1, Len(bitsB), 0, <<>>, Tail(bitsA), bitsB)

InlineOracle(str_bits_a, bitsA, bitsB) ==
    IF bitsA = <<>>
    THEN [err |-> "ValueError", value |-> <<>>]
    ELSE InlineLoop(1, Len(bitsB), int(str_bits_a[1]), <<>>, Tail(bitsA), bitsB)

-----------------------------------------------------------------------------
(* n_bit_binary_adder.py *)

RECURSIVE AddLoop(_, _, _, _, _, _)
AddLoop(i, bits_per_party, temp_carry, sum_result, alice_input_number, bob_input) ==
    IF i > bits_per_party
    THEN [err |-> "none", value |-> sum_result \o <<str(temp_carry)>>]
    ELSE IF i > Len(alice_input_number) \/ i > Len(bob_input)
    THEN [err |-> "IndexError", value |-> <<>>]
    ELSE LET fa == full_adder(temp_carry, alice_input_number[i], bob_input[i])
         IN  AddLoop(i + 1, bits_per_party, fa[1],
                     sum_result \o <<str(fa[2])>>, alice_input_number, bob_input)

\* add_n_bits with the loop started one position late: range(1, bits_per_party)
add_n_bits_SkipFirst(alice_input, bob_input, bits_per_party) ==
    IF alice_input = <<>>
    THEN [err |-> "ValueError", value |-> <<>>]
    ELSE AddLoop(2, bits_per_party, Head(alice_input), <<>>,
                 Tail(alice_input), bob_input)

add_n_bits(alice_input, bob_input, bits_per_party) ==
    IF alice_input = <<>>
    THEN [err |-> "ValueError", value |-> <<>>]
    ELSE AddLoop(1, bits_per_party, Head(alice_input), <<>>,
                 Tail(alice_input), bob_input)

\* make_n_bit_adder(bits_per_party)(x, y)
make_n_bit_adder(bits_per_party, x, y) == add_n_bits(x, y, bits_per_party)

-----------------------------------------------------------------------------
(* _print_evaluation: helpers of one loop iteration *)

\* BuildInputs with an entry built once and kept: if w not in inputs
BuildInputs_Cached(inputs, wires, bitsOf) ==
    [w \in (DOMAIN inputs) \cup Range(wires) |->
        IF w \in DOMAIN inputs
        THEN inputs[w]
        ELSE LET i == CHOOSE j \in DOMAIN wires : wires[j] = w
             IN  <<keys[w][bitsOf[i] + 1], Xor(pbits[w], bitsOf[i])>>]

\* for i in range(len(wires)): inputs[wires[i]] = (keys[w][bit], pbits[w] ^ bit)
BuildInputs(inputs, wires, bitsOf) ==
    [w \in (DOMAIN inputs) \cup Range(wires) |->
        IF \E i \in DOMAIN wires : wires[i] = w
        THEN LET i == CHOOSE j \in DOMAIN wires :
                        wires[j] = w /\ \A k \in DOMAIN wires : wires[k] = w => k <= j
             IN  <<keys[w][bitsOf[i] + 1], Xor(pbits[w], bitsOf[i])>>
        ELSE inputs[w]]

\* ''.join([str(result[w]) for w in outputs])
JoinResult(result, outs) == [i \in DOMAIN outs |-> str(result[outs[i]])]

verify(first_input, second_input) == first_input = second_input

-----------------------------------------------------------------------------
(* The alignment of the declared output order with the oracle's order:      *)
(* all declared output ids except the last in reversed order, then the     *)
(* last id unchanged.  AlignmentPermutation(n)[i] is the declared position  *)
(* read at aligned position i.                                              *)

\* AlignmentPermutation with the reversal taken over the whole list and the
\* last position then forced: positions 1 and n both read position n
AlignmentPermutation_OffByOne(n) ==
    [i \in 1..n |-> IF i < n /\ i > 1 THEN n + 1 - i ELSE n]

AlignmentPermutation(n) == [i \in 1..n |-> IF i < n THEN n - i ELSE n]

Align(ids) ==
    LET p == AlignmentPermutation(Len(ids)) IN [i \in DOMAIN ids |-> ids[p[i]]]

IsBijection(p, n) ==
    /\ DOMAIN p = 1..n
    /\ \A i \in 1..n : p[i] \in 1..n
    /\ \A j \in 1..n : \E i \in 1..n : p[i] = j
    /\ \A i, j \in 1..n : p[i] = p[j] => i = j

\* the inverse of a bijection p on 1..n
Inverse(p, n) == [j \in 1..n |-> CHOOSE i \in 1..n : p[i] = j]

\* undo Align: aligned position p[i] goes back to declared position i
Unalign(ids) ==
    LET q == Inverse(AlignmentPermutation(Len(ids)), Len(ids))
    IN  [i \in DOMAIN ids |-> ids[q[i]]]

-----------------------------------------------------------------------------
(* Circuits: wire ids are numbered Alice first, then Bob, then the outputs *)

WireIds(first, n) == [i \in 1..n |-> first + i - 1]

\* permutation bits of n input wires: two assignments, one the complement of
\* the other, so that every wire is seen with either permutation bit
PBitChoices(n) == {[w \in 1..n |-> w % 2], [w \in 1..n |-> (w + 1) % 2]}

Init ==
    /\ \E nA \in 0..MaxAlice, nB \in 0..MaxBob, nO \in 0..MaxOut :
         /\ a_wires = WireIds(1, nA)
         /\ b_wires = WireIds(nA + 1, nB)
         /\ outputs = WireIds(nA + nB + 1, nO)
         /\ keys = [w \in 1..(nA + nB) |-> <<2 * w, 2 * w + 1>>]
         /\ pbits \in PBitChoices(nA + nB)
    /\ print_mode \in PrintModeInputs      \* LocalTest.__init__: not validated
    /\ pc = "ready"
    /\ error = "none"
    /\ dispatched = "none"
    /\ total_wires = 0
    /\ possible_bit_combinations = <<>>
    /\ idx = 0
    /\ bits = <<>>
    /\ bits_a = <<>>
    /\ bits_b = <<>>
    /\ a_inputs = NoMap
    /\ b_inputs = NoMap
    /\ evalCalls = 0
    /\ evalResult = NoMap
    /\ str_result = <<>>
    /\ whole_result = <<>>
    /\ equal = "none"
    /\ reported = <<>>

circuitVars == <<a_wires, b_wires, outputs, keys, pbits>>
trialVars == <<bits, bits_a, bits_b, a_inputs, b_inputs, evalCalls, evalResult,
               str_result, whole_result, equal, reported>>

\* the print_mode setter
SetPrintMode(m) ==
    /\ pc = "ready"
    /\ print_mode' = IF m \in Modes THEN m ELSE print_mode
    /\ UNCHANGED <<circuitVars, pc, error, dispatched, total_wires,
                   possible_bit_combinations, idx, trialVars>>

\* start() with a mode that is no key of self.modes: KeyError
StartUnknown ==
    /\ pc = "ready"
    /\ print_mode \notin Modes
    /\ pc' = "crashed"
    /\ error' = "KeyError"
    /\ UNCHANGED <<circuitVars, print_mode, dispatched, total_wires,
                   possible_bit_combinations, idx, trialVars>>

\* start() -> _print_tables
StartTables ==
    /\ pc = "ready"
    /\ print_mode = "table"
    /\ dispatched' = "table"
    /\ pc' = "done"
    /\ UNCHANGED <<circuitVars, print_mode, error, total_wires,
                   possible_bit_combinations, idx, trialVars>>

\* start() -> _print_evaluation, up to the head of the loop
StartEvaluation ==
    /\ pc = "ready"
    /\ print_mode = "circuit"
    /\ dispatched' = "circuit"
    /\ total_wires' = Len(a_wires) + Len(b_wires)
    /\ possible_bit_combinations' = PossibleBitCombinations(total_wires')
    /\ pc' = "loop"
    /\ UNCHANGED <<circuitVars, print_mode, error, idx, trialVars>>

\* one iteration of the loop over possible_bit_combinations
Trial ==
    /\ pc = "loop"
    /\ idx < Len(possible_bit_combinations)
    /\ idx' = idx + 1
    /\ bits' = possible_bit_combinations[idx + 1]
    /\ bits_a' = IntList(SliceTo(bits', Len(a_wires)))
    /\ bits_b' = IntList(SliceFrom(bits', total_wires - Len(b_wires)))
    /\ a_inputs' = BuildInputs(a_inputs, a_wires, bits_a')
    /\ b_inputs' = BuildInputs(b_inputs, b_wires, bits_b')
    /\ evalCalls' = evalCalls + 1
    /\ \E result \in [Range(outputs) -> Bit] :
         /\ evalResult' = result
         /\ str_result' = JoinResult(result, outputs)
    /\ LET str_bits_a == SliceTo(bits', Len(a_wires))
           oracle == InlineOracle(str_bits_a, bits_a', bits_b')
       IN  IF oracle.err = "none"
           THEN /\ whole_result' = oracle.value
                /\ equal' = IF verify(str_result', whole_result') THEN "True" ELSE "False"
                /\ reported' = Append(reported, bits')
                /\ UNCHANGED <<pc, error>>
           ELSE /\ pc' = "crashed"
                /\ error' = oracle.err
                /\ UNCHANGED <<whole_result, equal, reported>>
    /\ UNCHANGED <<circuitVars, print_mode, dispatched, total_wires,
                   possible_bit_combinations>>

\* Finish with a return on the first mismatch
Finish_EarlyExit ==
    /\ pc = "loop"
    /\ (idx = Len(possible_bit_combinations) \/ equal = "False")
    /\ pc' = "done"
    /\ UNCHANGED <<circuitVars, print_mode, error, dispatched, total_wires,
                   possible_bit_combinations, idx, trialVars>>

\* the loop is exhausted: the final print() and the return
Finish ==
    /\ pc = "loop"
    /\ idx = Len(possible_bit_combinations)
    /\ pc' = "done"
    /\ UNCHANGED <<circuitVars, print_mode, error, dispatched, total_wires,
                   possible_bit_combinations, idx, trialVars>>

Next ==
    \/ \E m \in PrintModeInputs : SetPrintMode(m)
    \/ StartUnknown
    \/ StartTables
    \/ StartEvaluation
    \/ Trial
    \/ Finish

Spec == Init /\ [][Next]_vars

\* start() runs its loop to completion once it has been called
FairSpec == Spec /\ WF_vars(Trial) /\ WF_vars(Finish)

-----------------------------------------------------------------------------
(* Properties *)

TypeOK ==
    /\ pc \in {"ready", "loop", "done", "crashed"}
    /\ error \in {"none", "KeyError", "ValueError", "IndexError"}
    /\ idx \in 0..Len(possible_bit_combinations)
    /\ evalCalls = idx

\* a trial has been reported: str_result, whole_result and equal belong to it
Reported == dispatched = "circuit" /\ pc # "crashed" /\ idx > 0

\* the circuit of an adder: a carry-in wire and as many Alice as Bob bits
AdderShape == Len(a_wires) = Len(b_wires) + 1

\* sum of s[i] * 2^(i-1): the value of a bit list, position i of weight 2^(i-1)
RECURSIVE ValueOf(_)
ValueOf(s) == IF s = <<>> THEN 0 ELSE Head(s) + 2 * ValueOf(Tail(s))

\* the value of a binary numeral, most significant digit first
RECURSIVE BinValue(_)
BinValue(s) ==
    IF s = <<>> THEN 0 ELSE 2 * BinValue(SubSeq(s, 1, Len(s) - 1)) + int(s[Len(s)])

\* the n low-order bits of v in ascending position order, then the overflow bit
SumDigits(v, n) ==
    [i \in 1..(n + 1) |->
        IF i <= n THEN str((v \div Pow2(i - 1)) % 2) ELSE str(v \div Pow2(n))]

-----------------------------------------------------------------------------
\* C1: the verdict reported for a trial is 'equal' if and only if the
\* evaluator's output bits, read in the aligned order (all declared output
\* ids except the last reversed, then the last), are the same sequence as the
\* reference result of the trial.
C1_VerdictIffAlignedEqual ==
    Reported =>
        ((equal = "True") <=> (JoinResult(evalResult, Align(outputs)) = whole_result))

-----------------------------------------------------------------------------
\* C2: for n >= 1 bits per party, the reference adder (the inlined oracle and
\* add_n_bits) returns n+1 bits: the n low-order bits of A + B + c in position
\* order (position i of weight 2^(i-1)) followed by the overflow bit.
C2_RippleAdderCorrect ==
    (Reported /\ AdderShape /\ Len(b_wires) >= 1) =>
        LET n == Len(b_wires)
            v == ValueOf(Tail(bits_a)) + ValueOf(bits_b) + Head(bits_a)
            r == add_n_bits(bits_a, bits_b, n)
        IN  /\ whole_result = SumDigits(v, n)
            /\ r.err = "none"
            /\ r.value = SumDigits(v, n)
            /\ (bits_a = <<0, 1>> /\ bits_b = <<1>> => whole_result = <<"0", "1">>)

C2_Witness ==
    /\ Reported /\ AdderShape /\ Len(b_wires) = 2
    /\ bits_a = <<1, 1, 0>> /\ bits_b = <<1, 1>>
    /\ whole_result = <<"1", "0", "1">>

-----------------------------------------------------------------------------
\* C3: the enumeration holds exactly 2^total_wires vectors, each of length
\* total_wires, without duplicates, the k-th (from 0) being the binary numeral
\* of k; each vector splits into an Alice prefix of length |alice| and a Bob
\* suffix of length |bob| whose concatenation is the vector.
C3_EnumerationComplete ==
    dispatched = "circuit" =>
        /\ Len(possible_bit_combinations) = Pow2(Len(a_wires) + Len(b_wires))
        /\ \A k \in DOMAIN possible_bit_combinations :
             /\ Len(possible_bit_combinations[k]) = Len(a_wires) + Len(b_wires)
             /\ BinValue(possible_bit_combinations[k]) = k - 1
        /\ \A j, k \in DOMAIN possible_bit_combinations :
             possible_bit_combinations[j] = possible_bit_combinations[k] => j = k
        /\ idx > 0 =>
             /\ Len(bits_a) = Len(a_wires)
             /\ Len(bits_b) = Len(b_wires)
             /\ bits_a \o bits_b = IntList(bits)

-----------------------------------------------------------------------------
\* C4: at every invocation of the evaluator the two input maps hold entries
\* for exactly the Alice and the Bob wires, and the entry of a wire with bit b
\* in the current vector is (keys[w][b], pbits[w] XOR b).
C4_GarbledInputsCurrent ==
    evalCalls > 0 =>
        /\ DOMAIN a_inputs = Range(a_wires)
        /\ DOMAIN b_inputs = Range(b_wires)
        /\ \A i \in DOMAIN a_wires :
             LET w == a_wires[i]
                 b == int(bits[i])
             IN  a_inputs[w] = <<keys[w][b + 1], Xor(pbits[w], b)>>
        /\ \A i \in DOMAIN b_wires :
             LET w == b_wires[i]
                 b == int(bits[Len(a_wires) + i])
             IN  b_inputs[w] = <<keys[w][b + 1], Xor(pbits[w], b)>>

\* a third trial: both maps were filled by earlier trials with other bits
C4_Witness ==
    /\ evalCalls >= 3
    /\ Len(a_wires) >= 1 /\ Len(b_wires) >= 2
    /\ bits_b = <<1, 0>>

-----------------------------------------------------------------------------
\* C5: when the number of input wires exceeds the configured ceiling the run
\* fails with EnumerationOverflow before any vector is allocated and before
\* any trial.  The code configures no ceiling; Ceiling is one a configuration
\* could set.
Ceiling == MaxAlice + MaxBob - 1

C5_OverflowRejected ==
    (dispatched = "circuit" /\ Len(a_wires) + Len(b_wires) > Ceiling) =>
        /\ pc = "crashed"
        /\ error = "EnumerationOverflow"
        /\ possible_bit_combinations = <<>>
        /\ evalCalls = 0
        /\ reported = <<>>

-----------------------------------------------------------------------------
\* C6 as claimed: when an exhaustive run has ended, every one of the
\* 2^total_wires vectors was evaluated and reported once, in order.
C6_EveryRunExhaustive ==
    (dispatched = "circuit" /\ pc \in {"done", "crashed"}) =>
        /\ pc = "done"
        /\ Len(reported) = Pow2(Len(a_wires) + Len(b_wires))
        /\ evalCalls = Len(reported)
        /\ reported = possible_bit_combinations

\* Alice has a carry-in wire and at least as many further wires as Bob
EnoughAlice == Len(a_wires) >= Len(b_wires) + 1

\* C6 (amended): for a circuit with at least |bob| + 1 Alice wires, whatever
\* the evaluator returns, the run does not stop early: the vectors reported
\* are always the first ones of the enumeration, one evaluation each, and the
\* run ends with all 2^total_wires of them reported.
C6_ExhaustiveRun ==
    /\ [](EnoughAlice /\ dispatched = "circuit" =>
            /\ pc # "crashed"
            /\ evalCalls = Len(reported)
            /\ Len(reported) <= Pow2(Len(a_wires) + Len(b_wires))
            /\ \A k \in DOMAIN reported :
                 /\ reported[k] = possible_bit_combinations[k]
                 /\ BinValue(reported[k]) = k - 1
            /\ pc = "done" => Len(reported) = Pow2(Len(a_wires) + Len(b_wires)))
    /\ (EnoughAlice /\ pc = "loop") ~> (pc = "done")

\* a run of 16 trials ended after a mismatch on a vector
C6_Witness ==
    /\ EnoughAlice /\ pc = "done" /\ dispatched = "circuit"
    /\ Len(reported) = 16
    /\ equal = "False"

-----------------------------------------------------------------------------
\* C7: the oracle fails if and only if Alice's bits after the carry-in and
\* Bob's bits differ in length; it then returns no result.  Any exception
\* raised by the oracle counts as the failure.
C7_FailsIffLengthsDiffer ==
    (dispatched = "circuit" /\ idx > 0) =>
        ((pc = "crashed") <=> (Len(bits_a) - 1 # Len(bits_b)))

-----------------------------------------------------------------------------
\* C8: start() never dispatches on a mode outside {"circuit", "table"} and no
\* exception escapes it: once start() has been called the mode is a key of
\* the modes table.
C8_ModeAlwaysKnown ==
    pc # "ready" => (print_mode \in Modes /\ error # "KeyError")

-----------------------------------------------------------------------------
\* C9: the alignment permutation is a bijection on the declared output ids:
\* aligning and then applying the inverse returns the declared list, and a
\* list of fewer than 2 ids is left as it is.
C9_AlignmentBijection ==
    LET n == Len(outputs) IN
    /\ IsBijection(AlignmentPermutation(n), n)
    /\ Unalign(Align(outputs)) = outputs
    /\ n < 2 => Align(outputs) = outputs

C9_Witness ==
    /\ Len(outputs) = 3
    /\ Align(outputs) = <<outputs[2], outputs[1], outputs[3]>>
    /\ pc = "loop"

-----------------------------------------------------------------------------
\* C10: for a circuit with |alice| = |bob| + 1 the expected result printed by
\* _print_evaluation is the result of add_n_bits(bits_a, bits_b, |bob|) and of
\* make_n_bit_adder(|bob|)(bits_a, bits_b).
C10_OraclesAgree ==
    (Reported /\ AdderShape) =>
        /\ add_n_bits(bits_a, bits_b, Len(b_wires)) =
              [err |-> "none", value |-> whole_result]
        /\ make_n_bit_adder(Len(b_wires), bits_a, bits_b) =
              [err |-> "none", value |-> whole_result]

C10_Witness ==
    /\ Reported /\ AdderShape /\ Len(b_wires) = 2
    /\ bits_a = <<1, 0, 1>> /\ bits_b = <<1, 1>>
    /\ whole_result = <<"0", "1", "1">>
====
